---- MODULE Spec2Model ----
(***************************************************************************)
(* Batch export/download of CVAT task annotations (src/app.py).            *)
(*                                                                         *)
(* main() walks the parsed task identifiers one after the other.  For each *)
(* it starts an export job, polls the job until it is finished or failed   *)
(* or the timeout has passed, resolves the result URL and streams the      *)
(* archive to "<out>.part", which is renamed to "<out>" at the end.        *)
(*                                                                         *)
(* Strings the code inspects character by character (job statuses, URLs)   *)
(* are sequences of one-character strings.  Other strings are TLA+ strings.*)
(* The clock is read as the time elapsed since the poller's start; it      *)
(* advances while a status query is in flight and while the poller sleeps. *)
(*                                                                         *)
(* Observation variables: stdout and stderr are the lines main() prints    *)
(* over the whole run; notes are the status lines printed by the current   *)
(* call of wait_for_request_finished; calls are the network calls issued   *)
(* for the current task identifier.  The locals of an iteration, notes and *)
(* calls are cleared when the iteration ends.                              *)
(*                                                                         *)
(* Spec is a whole run, from the --task-ids string to the exit status.     *)
(* SpecParse applies parse_task_ids to every short string of its alphabet, *)
(* SpecResolve applies resolve_download_url to addresses and locations     *)
(* with several slashes or schemes.                                        *)
(***************************************************************************)
EXTENDS Integers, Sequences, FiniteSets, TLC

(***************************************************************************)
(* Bounds of the model.                                                    *)
(***************************************************************************)
MaxTasks == 2
MaxTimeout == 1
PollSeconds == 1
PayloadLen == 2
MaxRawLen == 4
MaxSlashes == 2

TaskIds == {597, 599}
QuerySeconds == {0, 1}
HttpStatuses == {200, 304, 404, 500}

\* Python's None where a string is expected: a value no string equals.
None == <<"None">>

\* A path holds no file, or a file with its bytes.
NoFile == [exists |-> FALSE, data |-> <<>>]
File(data) == [exists |-> TRUE, data |-> data]
OldContent == File(<<0>>)

(***************************************************************************)
(* Character strings.                                                      *)
(***************************************************************************)
s_queued == <<"q", "u", "e", "u", "e", "d">>
s_started == <<"s", "t", "a", "r", "t", "e", "d">>
s_finished == <<"f", "i", "n", "i", "s", "h", "e", "d">>
s_Finished == <<"F", "i", "n", "i", "s", "h", "e", "d">>
s_failed == <<"f", "a", "i", "l", "e", "d">>
s_FAILED == <<"F", "A", "I", "L", "E", "D">>
s_http == <<"h", "t", "t", "p", ":", "/", "/">>
s_https == <<"h", "t", "t", "p", "s", ":", "/", "/">>
s_empty == <<>>

Servers == {s_https \o <<"c", "/">>}
RelativeUrl == <<"/", "d">>
AbsoluteUrl == s_https \o <<"c", "/", "d">>

LowerChar(c) ==
    CASE c = "A" -> "a" [] c = "D" -> "d" [] c = "E" -> "e" [] c = "F" -> "f"
      [] c = "H" -> "h" [] c = "I" -> "i" [] c = "L" -> "l" [] c = "N" -> "n"
      [] c = "S" -> "s"
      [] OTHER -> c

Lower(s) == [i \in 1..Len(s) |-> LowerChar(s[i])]

StartsWith(s, p) == Len(s) >= Len(p) /\ SubSeq(s, 1, Len(p)) = p

\* Mutant of RStrip: one trailing character is removed at most.
RStrip_one(s, c) == IF s # <<>> /\ s[Len(s)] = c THEN SubSeq(s, 1, Len(s) - 1) ELSE s

RECURSIVE RStrip(_, _)
RStrip(s, c) ==
    IF s # <<>> /\ s[Len(s)] = c THEN RStrip(SubSeq(s, 1, Len(s) - 1), c) ELSE s

RECURSIVE LStrip(_, _)
LStrip(s, c) ==
    IF s # <<>> /\ Head(s) = c THEN LStrip(Tail(s), c) ELSE s

resolve_download_url(srv, result_url) ==
    IF StartsWith(result_url, s_http) \/ StartsWith(result_url, s_https)
    THEN result_url
    ELSE RStrip(srv, "/") \o <<"/">> \o LStrip(result_url, "/")

(***************************************************************************)
(* Files of the output directory.                                          *)
(***************************************************************************)
OutFile(id) == <<"task_", id, ".zip">>

TmpPath(out_path) == Append(out_path, ".part")

Paths == {OutFile(id) : id \in TaskIds} \cup {TmpPath(OutFile(id)) : id \in TaskIds}

Exists(files, path) == files[path].exists

\* Mutant of WriteTarget: the body is written to the final path itself.
WriteTarget_direct(out_path) == out_path

\* The path download_file opens for writing the body.
WriteTarget(out_path) == TmpPath(out_path)

\* tmp_path.replace(out_path)
\* Mutant of Replace: the rename is left out.
Replace_none(files, from, to) == files

Replace(files, from, to) ==
    IF from = to THEN files ELSE [files EXCEPT ![to] = files[from], ![from] = NoFile]

\* f.write(chunk)
Write(files, path, chunk) == [files EXCEPT ![path] = File(files[path].data \o chunk)]

\* Mutant of OpenWb: the file is opened for appending.
OpenWb_append(files, path) == [files EXCEPT ![path] = File(files[path].data)]

\* open(path, "wb")
OpenWb(files, path) == [files EXCEPT ![path] = File(<<>>)]

(***************************************************************************)
(* The export job as the platform reports it.                              *)
(***************************************************************************)
NonTerminalStatuses == {s_queued, s_started}
FinishedStatuses == {s_finished, s_Finished}
FailedStatuses == {s_failed, s_FAILED}
Messages == {"disk full"}

Response(status, message, result_url) ==
    [status |-> status, message |-> message, result_url |-> result_url]

\* The answers a status query may get: a job under way, a finished job with a
\* relative, an absolute, a missing or an empty result location, a failed job.
Responses ==
    {Response(st, "", None) : st \in NonTerminalStatuses}
    \cup {Response(s_finished, "", RelativeUrl), Response(s_Finished, "", AbsoluteUrl),
          Response(s_finished, "", None), Response(s_Finished, "", s_empty)}
    \cup {Response(st, m, None) : st \in FailedStatuses, m \in Messages}

\* Mutant of IsFinished: the status is compared as it is spelled.
IsFinished_exact(status) == status = s_finished

IsFinished(status) == Lower(status) = s_finished

\* Mutant of IsFailed: the status is compared as it is spelled.
IsFailed_exact(status) == status = s_failed

IsFailed(status) == Lower(status) = s_failed

\* Mutant of Truthy: only None counts as missing.
Truthy_notNone(url) == url # None

\* Python's truth value of rq.result_url
Truthy(url) == url # None /\ url # s_empty

\* Mutant of TimedOut: the difference is taken the wrong way round.
TimedOut_reversed(el, timeout) == 0 - el > timeout

\* time.time() - start > timeout_seconds
TimedOut(el, timeout) == el > timeout

(***************************************************************************)
(* The body of a download and the chunks iter_content yields.              *)
(***************************************************************************)
Payload(id) == [i \in 1..PayloadLen |-> id + i]

Body(id, status) == IF status = 200 THEN Payload(id) ELSE <<>>

Chunkings(body) ==
    {<<body>>} \cup {<<SubSeq(body, 1, k), SubSeq(body, k + 1, Len(body))>> : k \in 0..Len(body)}

RECURSIVE Join(_)
Join(chunks) == IF chunks = <<>> THEN <<>> ELSE Head(chunks) \o Join(Tail(chunks))

\* r.raise_for_status()
RaisesForStatus(status) == status >= 400 /\ status < 600

(***************************************************************************)
(* Exceptions.                                                             *)
(***************************************************************************)
\* type: the exception's class; about: what its text says; message, status and
\* code: the value the text carries (the job's message, the last status seen,
\* the HTTP status code).
Exc(type, about, message, status, code) ==
    [type |-> type, about |-> about, message |-> message, status |-> status, code |-> code]

NoExc == Exc("none", "", "", None, 0)

IsApiException(e) == e.type = "ApiException"

(***************************************************************************)
(* parse_task_ids: the --task-ids string, character by character.          *)
(***************************************************************************)
Digits == <<"0", "1", "2", "3", "4", "5", "6", "7", "8", "9">>
Whitespace == {" ", "\t", "\n"}

DigitValue(c) == (CHOOSE i \in DOMAIN Digits : Digits[i] = c) - 1
IsDigit(c) == \E i \in DOMAIN Digits : Digits[i] = c

\* str(n) for n >= 0, as the shell user types an identifier.
RECURSIVE Str(_)
Str(n) == IF n < 10 THEN <<Digits[n + 1]>> ELSE Str(n \div 10) \o <<Digits[(n % 10) + 1]>>

\* Mutant of ReplaceChar: nothing is replaced.
ReplaceChar_none(s, a, b) == s

\* raw.replace(a, b) for one-character a and b
ReplaceChar(s, a, b) == [i \in DOMAIN s |-> IF s[i] = a THEN b ELSE s[i]]

\* str.split(): the maximal runs of non-whitespace characters, in order
RECURSIVE Split(_)
Split(s) ==
    IF s = <<>> THEN <<>>
    ELSE IF Head(s) \in Whitespace THEN Split(Tail(s))
    ELSE LET stops == {i \in DOMAIN s : s[i] \in Whitespace}
             end == IF stops = {} THEN Len(s) + 1
                    ELSE CHOOSE i \in stops : \A j \in stops : i <= j
         IN  <<SubSeq(s, 1, end - 1)>> \o Split(SubSeq(s, end, Len(s)))

\* int(t) accepts an optional sign followed by decimal digits.
Unsigned(t) == IF t # <<>> /\ Head(t) \in {"+", "-"} THEN Tail(t) ELSE t
IntAccepts(t) == Unsigned(t) # <<>> /\ \A i \in DOMAIN Unsigned(t) : IsDigit(Unsigned(t)[i])

RECURSIVE Horner(_, _)
Horner(acc, ds) == IF ds = <<>> THEN acc ELSE Horner(10 * acc + DigitValue(Head(ds)), Tail(ds))

int(t) == IF Head(t) = "-" THEN 0 - Horner(0, Unsigned(t)) ELSE Horner(0, Unsigned(t))

\* Mutant of Raises: a token int() rejects is dropped silently.
Raises_lenient(tokens) == FALSE

\* ids.append(int(t)) raises ValueError at the first token int() rejects.
Raises(tokens) == \E i \in DOMAIN tokens : ~IntAccepts(tokens[i])

Tokens(raw) == Split(ReplaceChar(raw, ",", " "))

\* The list parse_task_ids returns when no token raises.
parse_task_ids(raw) ==
    LET tokens == SelectSeq(Tokens(raw), IntAccepts)
    IN  [i \in DOMAIN tokens |-> int(tokens[i])]

\* The process exit status: none while the process runs, 1 after an uncaught
\* exception, and main() returning without sys.exit.
NoExit == 0 - 1
ExitUncaught == 1

\* Mutant of ExitStatus: logged failures make the exit status 1.
ExitStatus_failures(errors) == IF errors > 0 THEN 1 ELSE 0

ExitStatus(errors) == 0

VARIABLES
    raw, exit_status,
    task_ids, overwrite, server, timeout_seconds,
    fs, fs0,
    idx, pc,
    rq_id, jobs, elapsed, last_status, rq, result_url, download_url,
    resp, chunks,
    exc,
    stdout, stderr, notes, calls

vars == <<raw, exit_status, task_ids, overwrite, server, timeout_seconds, fs, fs0, idx, pc,
          rq_id, jobs, elapsed, last_status, rq, result_url, download_url, resp, chunks,
          exc, stdout, stderr, notes, calls>>

inputs == <<raw, task_ids, overwrite, server, timeout_seconds, fs0>>
args == <<inputs, exit_status>>
poller == <<elapsed, last_status, rq, notes>>
download == <<download_url, resp, chunks>>

task_id == task_ids[idx]
out_file == OutFile(task_id)

NoRq == [status |-> None, message |-> "", result_url |-> None]
NoResp == [status |-> 0, body |-> <<>>]

\* The output directory before the run: earlier runs may have left complete files.
InitialDirs ==
    {f \in [Paths -> {NoFile, OldContent}] :
        \A id \in TaskIds : f[TmpPath(OutFile(id))] = NoFile}

\* The --task-ids strings of the runs: up to MaxTasks tokens joined by commas,
\* each an identifier as str() prints it or a token int() rejects.
BadToken == <<"x">>

RECURSIVE JoinTokens(_)
JoinTokens(tokens) ==
    IF tokens = <<>> THEN <<>>
    ELSE IF Len(tokens) = 1 THEN tokens[1]
    ELSE tokens[1] \o <<",">> \o JoinTokens(Tail(tokens))

RunInputs ==
    {JoinTokens(tokens) :
        tokens \in UNION {[1..n -> {Str(id) : id \in TaskIds} \cup {BadToken}] : n \in 0..MaxTasks}}

Init ==
    /\ raw \in RunInputs
    /\ exit_status = NoExit
    /\ task_ids = <<>>
    /\ overwrite \in BOOLEAN
    /\ server \in Servers
    /\ timeout_seconds \in {0, MaxTimeout}
    /\ fs \in InitialDirs
    /\ fs0 = fs
    /\ idx = 1
    /\ pc = "parse"
    /\ rq_id = 0
    /\ jobs = 0
    /\ elapsed = 0
    /\ last_status = None
    /\ rq = NoRq
    /\ result_url = None
    /\ download_url = None
    /\ resp = NoResp
    /\ chunks = <<>>
    /\ exc = NoExc
    /\ stdout = <<>>
    /\ stderr = <<>>
    /\ notes = <<>>
    /\ calls = <<>>

Line(kind, id, what) == [kind |-> kind, task |-> id, what |-> what]

\* A network call: the operation, the identifier it is issued for, the job it
\* names and, for a status query, the answer it got.
Call(op, id, job, answer) == [op |-> op, task |-> id, job |-> job, answer |-> answer]

\* task_ids = parse_task_ids(args.task_ids), every token accepted
ParseOk ==
    /\ pc = "parse"
    /\ ~Raises(Tokens(raw))
    /\ task_ids' = parse_task_ids(raw)
    /\ pc' = "loop"
    /\ UNCHANGED <<raw, overwrite, server, timeout_seconds, fs0, exit_status, fs, idx, rq_id, jobs,
                   poller, result_url, download, exc, stdout, stderr, calls>>

\* int(t) raises ValueError: nothing in main catches it and the process ends
ParseFail ==
    /\ pc = "parse"
    /\ Raises(Tokens(raw))
    /\ exc' = Exc("ValueError", "parse_task_ids", "", None, 0)
    /\ exit_status' = ExitUncaught
    /\ pc' = "abort"
    /\ UNCHANGED <<inputs, fs, idx, rq_id, jobs, poller, result_url, download, stdout, stderr, calls>>

\* for task_id in task_ids: the list is exhausted, main returns
LoopEnd ==
    /\ pc = "loop"
    /\ idx > Len(task_ids)
    /\ pc' = "done"
    /\ exit_status' = ExitStatus(Len(stderr))
    /\ UNCHANGED <<inputs, fs, idx, rq_id, jobs, poller, result_url, download, exc, stdout, stderr, calls>>

\* Mutant of NextIndex: the loop stays on the identifier it just handled.
NextIndex_same(i) == i

\* for task_id in task_ids: the position of the next identifier
NextIndex(i) == i + 1

\* Mutant of SkipProbe: the staging file is probed.
SkipProbe_part(id) == TmpPath(OutFile(id))

\* The file that decides whether the identifier is skipped.
SkipProbe(id) == OutFile(id)

\* out_file.exists() and not args.overwrite: continue
Skip ==
    /\ pc = "loop"
    /\ idx <= Len(task_ids)
    /\ Exists(fs, SkipProbe(task_id)) /\ ~overwrite
    /\ stdout' = stdout \o <<Line("start", task_id, ""), Line("skip", task_id, "")>>
    /\ idx' = NextIndex(idx)
    /\ UNCHANGED <<args, fs, pc, rq_id, jobs, poller, result_url, download, exc, stderr, calls>>

StartExport ==
    /\ pc = "loop"
    /\ idx <= Len(task_ids)
    /\ ~(Exists(fs, SkipProbe(task_id)) /\ ~overwrite)
    /\ stdout' = Append(stdout, Line("start", task_id, ""))
    /\ pc' = "trigger"
    /\ UNCHANGED <<args, fs, idx, rq_id, jobs, poller, result_url, download, exc, stderr, calls>>

(***************************************************************************)
(* Export trigger: api_client.tasks_api.create_dataset_export              *)
(***************************************************************************)
TriggerErrors == {"ApiException", "ConnectionError"}

\* Mutant of AfterTrigger: the result is fetched without waiting for the job.
AfterTrigger_nowait == "resolve"

\* Where main goes on once the export is queued: wait_for_request_finished.
AfterTrigger == "poll"

TriggerOk ==
    /\ pc = "trigger"
    /\ calls' = Append(calls, Call("create_dataset_export", task_id, 0, NoRq))
    /\ jobs' = jobs + 1
    /\ rq_id' = jobs + 1
    /\ stdout' = Append(stdout, Line("queued", task_id, ""))
    /\ elapsed' = 0
    /\ last_status' = None
    /\ pc' = AfterTrigger
    /\ UNCHANGED <<args, fs, idx, rq, notes, result_url, download, exc, stderr>>

TriggerFail ==
    /\ pc = "trigger"
    /\ \E t \in TriggerErrors : exc' = Exc(t, "create_dataset_export", "", None, 0)
    /\ calls' = Append(calls, Call("create_dataset_export", task_id, 0, NoRq))
    /\ pc' = "except"
    /\ UNCHANGED <<args, fs, idx, rq_id, jobs, poller, result_url, download, stdout, stderr>>

(***************************************************************************)
(* wait_for_request_finished: a status query (lines 44-49), then what the  *)
(* loop body does with its answer (lines 52-63).  The poller's locals end  *)
(* with the call.                                                          *)
(***************************************************************************)
\* Mutant of PollOutcome: the timeout is tested before the status.
PollOutcome_timeoutFirst(r, el, timeout) ==
    IF TimedOut(el, timeout) THEN "timeout"
    ELSE IF IsFinished(r.status)
    THEN IF ~Truthy(r.result_url) THEN "empty" ELSE "return"
    ELSE IF IsFailed(r.status) THEN "failed"
    ELSE "sleep"

PollOutcome(r, el, timeout) ==
    IF IsFinished(r.status)
    THEN IF ~Truthy(r.result_url) THEN "empty" ELSE "return"
    ELSE IF IsFailed(r.status) THEN "failed"
    ELSE IF TimedOut(el, timeout) THEN "timeout"
    ELSE "sleep"

\* Mutant of Notify: the status is printed after every query.
Notify_always(status, last) == TRUE

\* if status != last_status: print(...); last_status = status
Notify(status, last) == status # last

LeavePoller ==
    /\ elapsed' = 0
    /\ last_status' = None
    /\ rq' = NoRq
    /\ notes' = <<>>

PollQuery ==
    /\ pc = "poll"
    /\ \E d \in QuerySeconds : elapsed' = elapsed + d
    /\ \E r \in Responses :
        /\ calls' = Append(calls, Call("retrieve", task_id, rq_id, r))
        /\ rq' = r
        /\ notes' = IF Notify(r.status, last_status) THEN Append(notes, r.status) ELSE notes
        /\ last_status' = r.status
    /\ pc' = "check"
    /\ UNCHANGED <<args, fs, idx, rq_id, jobs, result_url, download, exc, stdout, stderr>>

\* api_client.requests_api.retrieve raises
PollApiError ==
    /\ pc = "poll"
    /\ calls' = Append(calls, Call("retrieve", task_id, rq_id, NoRq))
    /\ exc' = Exc("ApiException", "retrieve", "", None, 0)
    /\ LeavePoller
    /\ pc' = "except"
    /\ UNCHANGED <<args, fs, idx, rq_id, jobs, result_url, download, stdout, stderr>>

\* return rq.result_url
PollReturn ==
    /\ pc = "check"
    /\ PollOutcome(rq, elapsed, timeout_seconds) = "return"
    /\ result_url' = rq.result_url
    /\ LeavePoller
    /\ pc' = "resolve"
    /\ UNCHANGED <<args, fs, idx, rq_id, jobs, download, exc, stdout, stderr, calls>>

PollEmpty ==
    /\ pc = "check"
    /\ PollOutcome(rq, elapsed, timeout_seconds) = "empty"
    /\ exc' = Exc("RuntimeError", "finished but result_url is empty", "", None, 0)
    /\ LeavePoller
    /\ pc' = "except"
    /\ UNCHANGED <<args, fs, idx, rq_id, jobs, result_url, download, stdout, stderr, calls>>

PollFailed ==
    /\ pc = "check"
    /\ PollOutcome(rq, elapsed, timeout_seconds) = "failed"
    /\ exc' = Exc("RuntimeError", "failed", rq.message, None, 0)
    /\ LeavePoller
    /\ pc' = "except"
    /\ UNCHANGED <<args, fs, idx, rq_id, jobs, result_url, download, stdout, stderr, calls>>

PollTimeout ==
    /\ pc = "check"
    /\ PollOutcome(rq, elapsed, timeout_seconds) = "timeout"
    /\ exc' = Exc("TimeoutError", "Timeout waiting for request", "", rq.status, 0)
    /\ LeavePoller
    /\ pc' = "except"
    /\ UNCHANGED <<args, fs, idx, rq_id, jobs, result_url, download, stdout, stderr, calls>>

\* time.sleep(poll_seconds)
PollSleep ==
    /\ pc = "check"
    /\ PollOutcome(rq, elapsed, timeout_seconds) = "sleep"
    /\ elapsed' = elapsed + PollSeconds
    /\ pc' = "poll"
    /\ UNCHANGED <<args, fs, idx, rq_id, jobs, last_status, rq, notes, result_url, download,
                   exc, stdout, stderr, calls>>

(***************************************************************************)
(* main, lines 133-134                                                     *)
(***************************************************************************)
Resolve ==
    /\ pc = "resolve"
    /\ download_url' = resolve_download_url(server, result_url)
    /\ stdout' = Append(stdout, Line("downloading", task_id, download_url'))
    /\ pc' = "download"
    /\ UNCHANGED <<args, fs, idx, rq_id, jobs, poller, result_url, resp, chunks, exc,
                   stderr, calls>>

(***************************************************************************)
(* download_file                                                           *)
(***************************************************************************)
tmp_path == WriteTarget(out_file)

\* requests.get raises before a response arrives
DlConnectError ==
    /\ pc = "download"
    /\ calls' = Append(calls, Call("get", task_id, rq_id, NoRq))
    /\ exc' = Exc("ConnectionError", "get", "", None, 0)
    /\ pc' = "except"
    /\ UNCHANGED <<args, fs, idx, rq_id, jobs, poller, result_url, download, stdout, stderr>>

\* r.raise_for_status() raises
DlHttpError ==
    /\ pc = "download"
    /\ calls' = Append(calls, Call("get", task_id, rq_id, NoRq))
    /\ \E st \in HttpStatuses :
        /\ RaisesForStatus(st)
        /\ exc' = Exc("HTTPError", "raise_for_status", "", None, st)
    /\ pc' = "except"
    /\ UNCHANGED <<args, fs, idx, rq_id, jobs, poller, result_url, download, stdout, stderr>>

\* the response is accepted and the staging file is opened
DlOpen ==
    /\ pc = "download"
    /\ calls' = Append(calls, Call("get", task_id, rq_id, NoRq))
    /\ \E st \in HttpStatuses :
        /\ ~RaisesForStatus(st)
        /\ resp' = [status |-> st, body |-> Body(task_id, st)]
        /\ chunks' \in Chunkings(Body(task_id, st))
    /\ fs' = OpenWb(fs, tmp_path)
    /\ pc' = "write"
    /\ UNCHANGED <<args, idx, rq_id, jobs, poller, result_url, download_url, exc, stdout, stderr>>

\* for chunk in r.iter_content(...): if chunk: f.write(chunk)
DlChunk ==
    /\ pc = "write"
    /\ chunks # <<>>
    /\ fs' = IF Head(chunks) # <<>> THEN Write(fs, tmp_path, Head(chunks)) ELSE fs
    /\ chunks' = Tail(chunks)
    /\ UNCHANGED <<args, idx, pc, rq_id, jobs, poller, result_url, download_url, resp, exc,
                   stdout, stderr, calls>>

\* Mutant of OnWriteError: the staging file is removed when the body fails.
OnWriteError_unlink(files, path) == [files EXCEPT ![path] = NoFile]

\* The with blocks close the staging file and the response; nothing is removed.
OnWriteError(files, path) == files

\* iter_content raises in the middle of the body
DlChunkError ==
    /\ pc = "write"
    /\ chunks # <<>>
    /\ exc' = Exc("ConnectionError", "iter_content", "", None, 0)
    /\ fs' = OnWriteError(fs, tmp_path)
    /\ pc' = "except"
    /\ UNCHANGED <<args, idx, rq_id, jobs, poller, result_url, download, stdout, stderr, calls>>

\* The locals of the iteration are dropped and the loop takes the next identifier.
EndIteration ==
    /\ idx' = NextIndex(idx)
    /\ rq_id' = 0
    /\ elapsed' = 0
    /\ last_status' = None
    /\ rq' = NoRq
    /\ notes' = <<>>
    /\ result_url' = None
    /\ download_url' = None
    /\ resp' = NoResp
    /\ chunks' = <<>>
    /\ exc' = NoExc
    /\ calls' = <<>>

\* the body is exhausted: tmp_path.replace(out_path), then print saved
DlRename ==
    /\ pc = "write"
    /\ chunks = <<>>
    /\ fs' = Replace(fs, tmp_path, out_file)
    /\ stdout' = Append(stdout, Line("saved", task_id, ""))
    /\ pc' = "loop"
    /\ EndIteration
    /\ UNCHANGED <<args, jobs, stderr>>

(***************************************************************************)
(* except exceptions.ApiException / except Exception                       *)
(***************************************************************************)
\* Mutant of AfterExcept: the except clause ends the run.
AfterExcept_abort == "done"

\* Where main goes on after an except clause.
AfterExcept == "loop"

Handle ==
    /\ pc = "except"
    /\ stderr' = Append(stderr,
                        Line(IF IsApiException(exc) THEN "API error" ELSE "error",
                             task_id, ""))
    /\ pc' = AfterExcept
    /\ EndIteration
    /\ UNCHANGED <<args, fs, jobs, stdout>>

Next ==
    \/ ParseOk
    \/ ParseFail
    \/ LoopEnd
    \/ Skip
    \/ StartExport
    \/ TriggerOk
    \/ TriggerFail
    \/ PollQuery
    \/ PollApiError
    \/ PollReturn
    \/ PollEmpty
    \/ PollFailed
    \/ PollTimeout
    \/ PollSleep
    \/ Resolve
    \/ DlConnectError
    \/ DlHttpError
    \/ DlOpen
    \/ DlChunk
    \/ DlChunkError
    \/ DlRename
    \/ Handle

Spec == Init /\ [][Next]_vars

(***************************************************************************)
(* parse_task_ids alone, on every string of up to MaxRawLen characters.    *)
(***************************************************************************)
ParseAlphabet == {"0", "5", "7", ",", " ", "\t", "x", "-"}

ParseInputs == UNION {[1..n -> ParseAlphabet] : n \in 0..MaxRawLen}

InitParse ==
    /\ raw \in ParseInputs
    /\ exit_status = NoExit
    /\ task_ids = <<>>
    /\ overwrite = FALSE
    /\ server \in Servers
    /\ timeout_seconds = 0
    /\ fs = [p \in Paths |-> NoFile]
    /\ fs0 = fs
    /\ idx = 1
    /\ pc = "parse"
    /\ rq_id = 0
    /\ jobs = 0
    /\ elapsed = 0
    /\ last_status = None
    /\ rq = NoRq
    /\ result_url = None
    /\ download_url = None
    /\ resp = NoResp
    /\ chunks = <<>>
    /\ exc = NoExc
    /\ stdout = <<>>
    /\ stderr = <<>>
    /\ notes = <<>>
    /\ calls = <<>>

NextParse == ParseOk \/ ParseFail

SpecParse == InitParse /\ [][NextParse]_vars

(***************************************************************************)
(* resolve_download_url alone, on server addresses and result locations    *)
(* with up to MaxSlashes slashes at the join.                              *)
(***************************************************************************)
Slashes(k) == [i \in 1..k |-> "/"]

ResolveServers ==
    {base \o Slashes(k) :
        base \in {<<"c">>, s_https \o <<"c">>, s_http \o <<"c", "/", "a">>}, k \in 0..MaxSlashes}

ResolveUrls ==
    ({Slashes(k) \o path :
        k \in 0..MaxSlashes,
        path \in {<<>>, <<"d">>, <<"d", "/">>, <<"d", "/", "/", "e">>}} \ {<<>>})
    \cup
    {scheme \o rest :
        scheme \in {s_http, s_https, <<"H", "T", "T", "P", ":", "/", "/">>,
                    <<"f", "t", "p", ":", "/", "/">>, <<"h", "t", "t", "p", ":", "/">>,
                    <<"h", "t", "t", "p", "s", ":">>},
        rest \in {<<"c", "/", "d">>, <<"c", "/", "/", "d", "/">>}}

\* main has a finished job for its one identifier and is about to resolve the
\* result location.
InitResolve ==
    /\ raw = Str(597)
    /\ exit_status = NoExit
    /\ task_ids = <<597>>
    /\ overwrite = FALSE
    /\ server \in ResolveServers
    /\ timeout_seconds = 0
    /\ fs = [p \in Paths |-> NoFile]
    /\ fs0 = fs
    /\ idx = 1
    /\ pc = "resolve"
    /\ rq_id = 1
    /\ jobs = 1
    /\ elapsed = 0
    /\ last_status = None
    /\ rq = NoRq
    /\ result_url \in ResolveUrls
    /\ download_url = None
    /\ resp = NoResp
    /\ chunks = <<>>
    /\ exc = NoExc
    /\ stdout = <<Line("start", 597, ""), Line("queued", 597, "")>>
    /\ stderr = <<>>
    /\ notes = <<>>
    /\ calls = <<Call("create_dataset_export", 597, 0, NoRq),
                 Call("retrieve", 597, 1, Response(s_finished, "", result_url))>>

NextResolve == Resolve

SpecResolve == InitResolve /\ [][NextResolve]_vars

(***************************************************************************)
(* Observations used by the properties.                                    *)
(***************************************************************************)
Count(seq, kind) == Cardinality({i \in DOMAIN seq : seq[i].kind = kind})

CountFor(seq, kind, id) ==
    Cardinality({i \in DOMAIN seq : seq[i].kind = kind /\ seq[i].task = id})

Ops(cs) == [i \in DOMAIN cs |-> cs[i].op]

CountOp(cs, op) == Cardinality({i \in DOMAIN cs : cs[i].op = op})

Occurrences(id) == Cardinality({i \in DOMAIN task_ids : task_ids[i] = id})

InIteration == pc \notin {"parse", "abort", "loop", "done"}

\* The identifiers whose iteration has begun, in the order it began.
Started ==
    LET starts == SelectSeq(stdout, LAMBDA l : l.kind = "start")
    IN  [i \in DOMAIN starts |-> starts[i].task]

IsPrefix(s, t) == Len(s) <= Len(t) /\ SubSeq(t, 1, Len(s)) = s

ProperPrefix(s, t) == IsPrefix(s, t) /\ s # t

CompleteBodies(id) == {File(Body(id, st)) : st \in {c \in HttpStatuses : c < 400}}

C1_FinalIsComplete ==
    \A id \in TaskIds :
        fs[OutFile(id)] \in {NoFile, fs0[OutFile(id)]} \cup CompleteBodies(id)

C1_OnlyRenamePublishes ==
    \A id \in TaskIds :
        fs'[OutFile(id)] # fs[OutFile(id)] =>
            /\ pc = "write" /\ chunks = <<>> /\ task_id = id
            /\ fs[TmpPath(OutFile(id))] = File(resp.body)
            /\ fs'[OutFile(id)] = File(resp.body)
            /\ ~Exists(fs', TmpPath(OutFile(id)))

(***************************************************************************)
(* C1: the final path task_<id>.zip never holds a partially written file.  *)
(* In every state it holds nothing, the complete file it held before the   *)
(* run, or the complete body of a download; and the only step that changes *)
(* it is the rename at the end of the body, which puts the whole body of   *)
(* the response there.  Chunks go to the ".part" path only.                *)
(***************************************************************************)
C1_AtomicPublish == [](C1_FinalIsComplete) /\ [][C1_OnlyRenamePublishes]_vars

\* A body is partly written to the staging file while the final path is empty.
C1_Witness ==
    /\ pc = "write"
    /\ chunks # <<>>
    /\ ProperPrefix(fs[TmpPath(out_file)].data, resp.body)
    /\ fs[TmpPath(out_file)].data # <<>>
    /\ ~Exists(fs, out_file)

C2_InListOrder ==
    /\ Started = SubSeq(task_ids, 1, IF InIteration THEN idx ELSE idx - 1)
    /\ pc = "done" => idx = Len(task_ids) + 1
    /\ pc = "except" => exc # NoExc

C2_ErrorLoggedAndLoopGoesOn ==
    pc = "except" =>
        /\ \E kind \in {"API error", "error"} :
            /\ stderr' = Append(stderr, Line(kind, task_id, ""))
            /\ kind = "API error" <=> exc.type = "ApiException"
        /\ pc' = "loop"
        /\ idx' = idx + 1
        /\ fs' = fs

(***************************************************************************)
(* C2: a failure at any stage of one identifier is logged with that        *)
(* identifier and does not end the run.  The step after a raised exception *)
(* writes one line naming the identifier to stderr ("API error" for an     *)
(* ApiException, "error" otherwise) and takes the loop to the next         *)
(* identifier; the iterations begun are always the identifiers of the list *)
(* in list order, and the run ends only when the list is exhausted.        *)
(***************************************************************************)
C2_FailureIsolated == [](C2_InListOrder) /\ [][C2_ErrorLoggedAndLoopGoesOn]_vars

\* The first of two identifiers failed and the second was saved.
C2_Witness ==
    /\ pc = "done"
    /\ Len(task_ids) = 2
    /\ Len(stderr) = 1 /\ stderr[1].task = task_ids[1]
    /\ stdout # <<>> /\ stdout[Len(stdout)] = Line("saved", task_ids[2], "")

SuccessStatuses == {st \in HttpStatuses : st \in 200..299}

(***************************************************************************)
(* C3: when download_file receives a non-success HTTP status (any status   *)
(* outside 2xx), the call fails and no file is created at the final path.  *)
(* Stated as: a download whose response has a non-success status never     *)
(* returns with a file at the final path.                                  *)
(***************************************************************************)
C3_NonSuccessLeavesNoFile ==
    [][~(/\ pc = "write"
         /\ resp.status \notin SuccessStatuses
         /\ pc' = "loop"
         /\ Exists(fs', out_file))]_vars

\* What holds of the code: a status raise_for_status rejects (4xx, 5xx) never
\* gets as far as the staging file, and the failing call leaves the files alone.
C3_ErrorStatusLeavesNoFile ==
    /\ [](pc = "write" => ~RaisesForStatus(resp.status))
    /\ [][exc'.type = "HTTPError" /\ exc.type # "HTTPError" =>
            /\ pc = "download" /\ pc' = "except"
            /\ exc'.code \in {404, 500}
            /\ fs' = fs]_vars

C4_FinishedReturnsLocation ==
    /\ (pc = "check" /\ rq.status \in FinishedStatuses
            /\ rq.result_url \in {RelativeUrl, AbsoluteUrl}) =>
        /\ pc' = "resolve"
        /\ result_url' = rq.result_url
        /\ exc' = NoExc
    /\ (pc' = "resolve" /\ pc # "resolve") =>
        /\ pc = "check"
        /\ rq.status \in FinishedStatuses
        /\ rq = calls[Len(calls)].answer
        /\ result_url' = rq.result_url

(***************************************************************************)
(* C4: a status query answered "finished" (in any spelling of case) with a *)
(* non-empty result location makes wait_for_request_finished return        *)
(* exactly that result location, with no error, on the first query as on a *)
(* later one; and the poller returns only from such an answer.             *)
(***************************************************************************)
C4_PollerReturns == [][C4_FinishedReturnsLocation]_vars

\* The poller has returned the location after three queries.
C4_Witness ==
    /\ pc = "resolve"
    /\ CountOp(calls, "retrieve") = 3
    /\ [i \in 2..4 |-> calls[i].answer.status] = [i \in 2..4 |->
            CASE i = 2 -> s_queued [] i = 3 -> s_started [] OTHER -> s_finished]
    /\ result_url = RelativeUrl

C5_QueriesBounded == CountOp(calls, "retrieve") <= (timeout_seconds \div PollSeconds) + 2

C5_TimeoutNamesLastStatus ==
    /\ (pc = "check" /\ rq.status \in NonTerminalStatuses /\ elapsed > timeout_seconds) =>
        /\ pc' = "except"
        /\ exc'.type = "TimeoutError"
        /\ exc'.status = calls[Len(calls)].answer.status
    /\ (pc = "check" /\ rq.status \in NonTerminalStatuses /\ elapsed <= timeout_seconds) =>
        /\ pc' = "poll"
        /\ elapsed' = elapsed + PollSeconds
    /\ (exc'.type = "TimeoutError" /\ exc.type # "TimeoutError") =>
        /\ pc = "check"
        /\ rq.status \in NonTerminalStatuses
        /\ elapsed > timeout_seconds

(***************************************************************************)
(* C5: a job that stays in non-terminal states is not polled forever.  A   *)
(* query answered with a non-terminal status after more than               *)
(* timeout_seconds have passed raises a TimeoutError that names that last  *)
(* status; before that the poller sleeps poll_seconds and asks again, so   *)
(* one call issues at most timeout_seconds / poll_seconds + 2 queries.     *)
(***************************************************************************)
C5_PollingEnds == [](C5_QueriesBounded) /\ [][C5_TimeoutNamesLastStatus]_vars

\* queued, then started, then the timeout: the error names "started".
C5_Witness ==
    /\ pc = "except"
    /\ exc.type = "TimeoutError"
    /\ exc.status = s_started
    /\ CountOp(calls, "retrieve") >= 2
    /\ calls[2].answer.status = s_queued

C6_NothingAfterFailed ==
    (pc = "except" /\ exc.about = "failed") =>
        /\ download_url = None
        /\ CountOp(calls, "get") = 0
        /\ calls[Len(calls)].answer.status \in FailedStatuses
        /\ exc.message = calls[Len(calls)].answer.message
        /\ stdout[Len(stdout)] = Line("queued", task_id, "")

C6_FailedRaises ==
    /\ (pc = "check" /\ rq.status \in FailedStatuses) =>
        /\ pc' = "except"
        /\ exc' = Exc("RuntimeError", "failed", rq.message, None, 0)
        /\ fs' = fs
        /\ stdout' = stdout
    /\ (pc = "except" /\ exc.about = "failed") =>
        /\ pc' = "loop"
        /\ fs' = fs
        /\ stdout' = stdout

(***************************************************************************)
(* C6: a query answered "failed" (in any spelling of case) raises an error *)
(* that carries the platform's message of that answer, and main then       *)
(* resolves no URL and downloads nothing for that task: the iteration ends *)
(* with no get issued and the files as they were.                          *)
(***************************************************************************)
C6_FailedJob == [](C6_NothingAfterFailed) /\ [][C6_FailedRaises]_vars

\* queued, then FAILED with the message "disk full".
C6_Witness ==
    /\ pc = "except"
    /\ exc.type = "RuntimeError"
    /\ exc.message = "disk full"
    /\ Len(calls) = 3
    /\ calls[2].answer.status = s_queued
    /\ calls[3].answer.status = s_FAILED

C7_NoDownloadOfEmpty ==
    /\ pc \in {"resolve", "download", "write"} => result_url \notin {None, s_empty}
    /\ CountOp(calls, "get") > 0 => result_url \notin {None, s_empty}

C7_EmptyRaises ==
    (pc = "check" /\ rq.status \in FinishedStatuses /\ rq.result_url \in {None, s_empty}) =>
        /\ pc' = "except"
        /\ exc' = Exc("RuntimeError", "finished but result_url is empty", "", None, 0)
        /\ result_url' = None

(***************************************************************************)
(* C7: a query answered "finished" with a missing (None) or empty result   *)
(* location raises the internal-inconsistency error instead of returning,  *)
(* so URL resolution and download never run with an empty result location. *)
(***************************************************************************)
C7_EmptyResult == [](C7_NoDownloadOfEmpty) /\ [][C7_EmptyRaises]_vars

\* The job finished with the empty string as its result location.
C7_Witness ==
    /\ pc = "except"
    /\ exc.about = "finished but result_url is empty"
    /\ calls[Len(calls)].answer.result_url = s_empty

C8_SkipStep ==
    (pc = "loop" /\ idx <= Len(task_ids) /\ fs[OutFile(task_ids[idx])].exists /\ ~overwrite) =>
        /\ pc' = "loop"
        /\ idx' = idx + 1
        /\ calls = <<>> /\ calls' = <<>>
        /\ jobs' = jobs
        /\ fs' = fs
        /\ stderr' = stderr
        /\ stdout' = stdout \o <<Line("start", task_ids[idx], ""), Line("skip", task_ids[idx], "")>>

(***************************************************************************)
(* C8: when the iteration of an identifier begins with task_<id>.zip       *)
(* present and overwrite not requested, the iteration is one step that     *)
(* issues no network call (no export job is created, no query, no get),    *)
(* leaves every file as it was, prints the skip line and no error line.    *)
(***************************************************************************)
C8_SkipIsFree == [][C8_SkipStep]_vars

\* An identifier listed twice: saved by this run, then skipped.
C8_Witness ==
    /\ pc = "loop"
    /\ idx = 3
    /\ ~fs0[OutFile(task_ids[2])].exists
    /\ stdout[Len(stdout)] = Line("skip", task_ids[2], "")
    /\ stderr = <<>>

C9_StagesInOrder ==
    LET n == Len(calls)
        last == calls[n]
    IN  /\ \A i \in 1..n :
            /\ calls[i].task = task_id
            /\ i = 1 => calls[i].op = "create_dataset_export"
            /\ i > 1 => /\ calls[i].op \in {"retrieve", "get"}
                        /\ calls[i].job = rq_id
                        /\ rq_id = jobs
            /\ calls[i].op = "get" => i = n /\ i > 2
        /\ pc \in {"loop", "done", "trigger"} => n = 0
        /\ pc = "poll" => n >= 1 /\ last.op # "get"
        /\ pc = "check" => n >= 2 /\ last.op = "retrieve"
        /\ pc \in {"resolve", "download"} =>
            /\ n >= 2 /\ last.op = "retrieve"
            /\ last.answer.status \in FinishedStatuses
            /\ last.answer.result_url = result_url
        /\ pc = "download" => download_url = resolve_download_url(server, result_url)
        /\ pc = "write" =>
            /\ n >= 3 /\ last.op = "get"
            /\ calls[n - 1].answer.status \in FinishedStatuses
            /\ calls[n - 1].answer.result_url = result_url
            /\ download_url = resolve_download_url(server, result_url)

C9_OneIdentifierAtATime ==
    /\ idx' # idx =>
        /\ idx' = idx + 1
        /\ pc' = "loop"
        /\ \/ stdout' = stdout \o <<Line("start", task_id, ""), Line("skip", task_id, "")>>
           \/ stdout' = Append(stdout, Line("saved", task_id, ""))
           \/ Len(stderr') = Len(stderr) + 1
    /\ (calls' # calls /\ calls' # <<>>) => idx' = idx /\ pc # "loop"

(***************************************************************************)
(* C9: processing is strictly sequential.  The network calls of an         *)
(* iteration are one export trigger, then status queries for the job that  *)
(* trigger created, then at most one get; URL resolution and the get come  *)
(* only after a query of that job was answered "finished" with the result  *)
(* location being fetched; every call is issued for the identifier the     *)
(* loop is at, and the loop moves on to the next identifier only by a step *)
(* that ends the current one (skipped, saved or failed).                   *)
(***************************************************************************)
C9_Sequential == [](C9_StagesInOrder) /\ [][C9_OneIdentifierAtATime]_vars

\* The second identifier is being downloaded after the first one failed.
C9_Witness ==
    /\ pc = "write"
    /\ idx = 2
    /\ Len(stderr) = 1
    /\ Ops(calls) = <<"create_dataset_export", "retrieve", "retrieve", "get">>

Errors(id) == CountFor(stderr, "API error", id) + CountFor(stderr, "error", id)

C11_Staged ==
    pc = "write" =>
        /\ Exists(fs, TmpPath(out_file))
        /\ fs[TmpPath(out_file)].data \o Join(chunks) = resp.body

\* Opening the staging file empties it, whatever an earlier attempt left there.
C11_OpenTruncates ==
    (pc = "download" /\ pc' = "write") => fs'[TmpPath(out_file)] = File(<<>>)

\* When download_file returns, the destination holds the body and the staging
\* file is gone.
C11_Return ==
    (pc = "write" /\ pc' = "loop") =>
        /\ fs'[out_file] = File(resp.body)
        /\ resp.status = 200 => fs'[out_file].data = Payload(task_id)
        /\ ~Exists(fs', TmpPath(out_file))

(***************************************************************************)
(* C11: when download_file gets a success response, then however the body  *)
(* is cut into chunks (empty chunks included) and whatever an earlier      *)
(* failed attempt left in the '.part' file, after the call returns the     *)
(* destination file holds exactly the payload and the '.part' file no      *)
(* longer exists.                                                          *)
(***************************************************************************)
C11_PayloadDelivered ==
    [](C11_Staged) /\ [][C11_OpenTruncates /\ C11_Return]_vars

\* The identifier occurs twice: the first attempt got as far as the download and
\* failed, the second one was saved.
C11_Witness ==
    /\ pc = "loop"
    /\ idx = 3
    /\ task_ids[1] = task_ids[2]
    /\ Len(stderr) = 1
    /\ CountFor(stdout, "downloading", task_ids[1]) = 2
    /\ stdout[Len(stdout)] = Line("saved", task_ids[2], "")
    /\ fs[OutFile(task_ids[2])] = File(Payload(task_ids[2]))
    /\ ~Exists(fs, TmpPath(OutFile(task_ids[2])))

(***************************************************************************)
(* The --task-ids string as its writer reads it: the tokens are the        *)
(* maximal runs of characters that are neither commas nor whitespace, and  *)
(* a token is numeric when it is a decimal numeral with an optional sign.  *)
(***************************************************************************)
Separators == {",", " ", "\t", "\n"}

TokenStarts(s) == {i \in DOMAIN s : s[i] \notin Separators /\ (i = 1 \/ s[i - 1] \in Separators)}

TokenEnd(s, i) ==
    CHOOSE j \in i..Len(s) :
        /\ \A k \in i..j : s[k] \notin Separators
        /\ j = Len(s) \/ s[j + 1] \in Separators

NthStart(s, n) ==
    CHOOSE i \in TokenStarts(s) : Cardinality({j \in TokenStarts(s) : j < i}) = n - 1

Written(s) ==
    [n \in 1..Cardinality(TokenStarts(s)) |-> SubSeq(s, NthStart(s, n), TokenEnd(s, NthStart(s, n)))]

Numeral(c) ==
    CASE c = "0" -> 0 [] c = "1" -> 1 [] c = "2" -> 2 [] c = "3" -> 3 [] c = "4" -> 4
      [] c = "5" -> 5 [] c = "6" -> 6 [] c = "7" -> 7 [] c = "8" -> 8 [] c = "9" -> 9

Numeric(t) ==
    \E k \in {0, 1} :
        /\ Len(t) > k
        /\ k = 1 => t[1] \in {"+", "-"}
        /\ \A i \in (k + 1)..Len(t) :
               t[i] \in {"0", "1", "2", "3", "4", "5", "6", "7", "8", "9"}

Malformed(s) == \E n \in DOMAIN Written(s) : ~Numeric(Written(s)[n])

\* The run strings that have a malformed token.
MalformedRuns == {s \in RunInputs : Malformed(s)}

\* A run whose string has a malformed token never gets past the parser.
C12_NeverStarts ==
    raw \in MalformedRuns =>
        /\ pc \in {"parse", "abort"}
        /\ task_ids = <<>>
        /\ calls = <<>> /\ jobs = 0
        /\ stdout = <<>> /\ stderr = <<>>
        /\ fs = fs0

\* The run is aborted by the parse error only, and the process ends with it.
C12_Aborted ==
    pc = "abort" =>
        /\ Malformed(raw)
        /\ exc.type = "ValueError"
        /\ exit_status # 0 /\ exit_status # NoExit

(***************************************************************************)
(* C12: if any token of the task-identifier string is malformed, the run   *)
(* aborts with a parse error before any network activity: no export        *)
(* trigger, status query or download is issued for any identifier, the     *)
(* well-formed identifiers before the malformed token included, and        *)
(* nothing happens after the abort.                                        *)
(***************************************************************************)
C12_ParseErrorIsFatal ==
    /\ [](C12_NeverStarts /\ C12_Aborted)
    /\ [][/\ pc # "abort"
          /\ (pc = "parse" /\ Malformed(raw)) => pc' = "abort"]_vars

\* A well-formed identifier precedes the malformed token.
C12_Witness ==
    /\ pc = "abort"
    /\ raw = <<"5", "9", "7", ",", "x">>
    /\ calls = <<>>
    /\ jobs = 0

\* The process has an exit status exactly when it has ended.
C13_ExitOnlyAtEnd == exit_status # NoExit <=> pc \in {"abort", "done"}

\* A run whose loop ran ends with exit status 0, whatever was logged.
C13_LoopExitsZero == pc = "done" => exit_status = 0

(***************************************************************************)
(* C13: once the task-identifier list has been parsed and the loop runs,   *)
(* the exit status of the command is 0, whatever number of identifiers     *)
(* failed and at whatever stage; the only non-zero exit is the parse       *)
(* error, which ends the run before the loop.                              *)
(***************************************************************************)
C13_ExitStatusZero ==
    /\ [](C13_ExitOnlyAtEnd /\ C13_LoopExitsZero)
    /\ [][(pc \notin {"parse", "abort"} /\ exit_status' # NoExit) => exit_status' = 0]_vars

\* Both identifiers failed, one with an API error and one with another error.
C13_Witness ==
    /\ pc = "done"
    /\ exit_status = 0
    /\ Len(task_ids) = 2
    /\ Len(stderr) = 2
    /\ stderr[1].kind = "API error"
    /\ stderr[2].kind = "error"

\* Within one iteration: at most one trigger and one download request, and the
\* trigger has been issued once the iteration is past it.
C14_AtMostOnce ==
    /\ CountOp(calls, "create_dataset_export") <= 1
    /\ CountOp(calls, "get") <= 1
    /\ pc \in {"poll", "check", "resolve", "download", "write"} =>
           CountOp(calls, "create_dataset_export") = 1
    /\ pc \in {"download", "trigger"} => CountOp(calls, "get") = 0
    /\ ~InIteration => calls = <<>>

\* Over the whole run: an identifier has no more jobs queued than occurrences
\* that were not skipped, and no more downloads than jobs.
C14_OverTheRun ==
    \A id \in TaskIds :
        /\ CountFor(stdout, "queued", id)
               <= CountFor(stdout, "start", id) - CountFor(stdout, "skip", id)
        /\ CountFor(stdout, "downloading", id) <= CountFor(stdout, "queued", id)
        /\ CountFor(stdout, "start", id) <= Occurrences(id)

\* The step that ends an iteration which was not skipped: one trigger and at
\* most one download were issued, and the loop moves to the next occurrence.
C14_IterationEnds ==
    (pc \in {"except", "write"} /\ pc' \notin {"except", "write"}) =>
        /\ CountOp(calls, "create_dataset_export") = 1
        /\ CountOp(calls, "get") <= 1
        /\ idx' = idx + 1
        /\ pc' = "loop"

\* No stage is entered a second time: the trigger follows the start of the
\* iteration only, the download follows the resolved result only.
C14_NoRetry ==
    /\ idx' >= idx
    /\ pc' = "trigger" => (pc = "loop" /\ idx' = idx)
    /\ (pc' = "download" /\ pc # "download") => pc = "resolve"
    /\ pc = "except" => pc' # "trigger" /\ pc' # "download"

(***************************************************************************)
(* C14: for every occurrence of a task identifier that is not skipped, the *)
(* run issues exactly one export-trigger request and at most one download  *)
(* request; a failed stage is never retried, neither within the iteration  *)
(* nor later in the run, unless the identifier occurs again in the list.   *)
(***************************************************************************)
C14_NoRetries ==
    [](C14_AtMostOnce /\ C14_OverTheRun) /\ [][C14_IterationEnds /\ C14_NoRetry]_vars

\* One identifier: its download failed, it was not tried again, the run ended.
C14_Witness ==
    /\ pc = "done"
    /\ Len(task_ids) = 1
    /\ Len(stderr) = 1
    /\ jobs = 1
    /\ Count(stdout, "queued") = 1
    /\ Count(stdout, "downloading") = 1
    /\ Count(stdout, "saved") = 0

\* The integer a numeric token denotes, digit by digit in positional notation.
RECURSIVE Positional(_, _)
Positional(t, i) ==
    IF i > Len(t) THEN 0
    ELSE (IF t[i] \in {"+", "-"} THEN 0 ELSE Numeral(t[i]) * 10 ^ (Len(t) - i)) + Positional(t, i + 1)

Denoted(t) == IF t[1] = "-" THEN 0 - Positional(t, 1) ELSE Positional(t, 1)

\* The integers written in a well-formed string, in the order they are written.
IntegersIn(s) == [n \in DOMAIN Written(s) |-> Denoted(Written(s)[n])]

\* The parser accepts exactly the well-formed strings.
C15_Accepts == (pc = "loop" => ~Malformed(raw)) /\ (pc = "abort" => Malformed(raw))

\* The list the parser returned holds the integers of the string.
C15_Returned == pc = "loop" => task_ids = IntegersIn(raw)

(***************************************************************************)
(* C15: for every well-formed string of integers separated by commas       *)
(* and/or whitespace in any mixture, parse_task_ids returns exactly the    *)
(* integers present, in their original order; empty tokens (consecutive    *)
(* separators) are ignored and duplicates are kept.                        *)
(***************************************************************************)
C15_ParsesWellFormed ==
    /\ [](C15_Accepts /\ C15_Returned)
    /\ [][(pc = "parse" /\ ~Malformed(raw)) =>
             (pc' = "loop" /\ task_ids' = IntegersIn(raw))]_vars

\* A comma followed by a blank between two equal integers.
C15_Witness ==
    /\ pc = "loop"
    /\ raw = <<"5", ",", " ", "5">>
    /\ task_ids = <<5, 5>>

\* The location names its scheme: it begins with http:// or https://, in
\* lower case.
HasScheme(url) ==
    \/ Len(url) >= 7 /\ \A i \in 1..7 : url[i] = <<"h", "t", "t", "p", ":", "/", "/">>[i]
    \/ Len(url) >= 8 /\ \A i \in 1..8 : url[i] = <<"h", "t", "t", "p", "s", ":", "/", "/">>[i]

\* out is base + "/" + path, where base is srv without the slashes at its end
\* and path is url without the slashes at its start.
JoinedByOneSlash(srv, url, out) ==
    \E a \in 0..Len(srv), b \in 0..Len(url) :
        /\ \A i \in (a + 1)..Len(srv) : srv[i] = "/"
        /\ a = 0 \/ srv[a] # "/"
        /\ \A i \in 1..b : url[i] = "/"
        /\ b = Len(url) \/ url[b + 1] # "/"
        /\ Len(out) = a + 1 + (Len(url) - b)
        /\ \A i \in 1..a : out[i] = srv[i]
        /\ out[a + 1] = "/"
        /\ \A i \in 1..(Len(url) - b) : out[a + 1 + i] = url[b + i]

C16_Resolved ==
    pc = "download" =>
        /\ HasScheme(result_url) => download_url = result_url
        /\ ~HasScheme(result_url) => JoinedByOneSlash(server, result_url, download_url)
        /\ stdout[Len(stdout)] = Line("downloading", task_id, download_url)

(***************************************************************************)
(* C16: resolve_download_url returns a result location that starts with    *)
(* 'http://' or 'https://' unchanged; any other location is appended to    *)
(* the server address, the slashes at the end of the address and at the    *)
(* start of the location removed and exactly one slash put between them,   *)
(* with nothing else changed.                                              *)
(***************************************************************************)
C16_UrlResolved ==
    [](C16_Resolved) /\ [][pc = "resolve" => (pc' = "download" /\ result_url' = result_url)]_vars

\* The address ends with a slash and the location starts with one.
C16_Witness ==
    /\ pc = "download"
    /\ server = s_https \o <<"c", "/">>
    /\ result_url = <<"/", "d">>
    /\ download_url = s_https \o <<"c", "/", "d">>

Part(id) == TmpPath(OutFile(id))

\* A '.part' file that is on disk while no body is being written is what a
\* failed download left behind.
LeftBehind(id) == Exists(fs, Part(id)) /\ pc # "write"

C17_FailureLeavesPart ==
    (pc = "write" /\ pc' = "except") =>
        /\ fs' = fs
        /\ Exists(fs', Part(task_id))

\* The failure is logged and the loop goes on with the next identifier.
C17_LoggedAndGoesOn ==
    pc = "except" =>
        /\ fs' = fs
        /\ Len(stderr') = Len(stderr) + 1
        /\ stderr'[Len(stderr')].task = task_id
        /\ pc' = "loop"
        /\ idx' = idx + 1

\* Only a later download of the same identifier touches what was left behind.
C17_OnlySameIdentifier ==
    \A id \in TaskIds :
        (LeftBehind(id) /\ ~(pc = "download" /\ task_id = id)) => fs'[Part(id)] = fs[Part(id)]

Answered(cs) ==
    LET qs == SelectSeq(cs, LAMBDA c : c.op = "retrieve" /\ c.answer # NoRq)
    IN  [i \in DOMAIN qs |-> qs[i].answer.status]

\* A sequence without the entries that repeat the entry before them.
RECURSIVE Changes(_)
Changes(seq) ==
    IF Len(seq) <= 1 THEN seq
    ELSE LET front == SubSeq(seq, 1, Len(seq) - 1)
         IN  IF seq[Len(seq)] = seq[Len(seq) - 1] THEN Changes(front)
             ELSE Append(Changes(front), seq[Len(seq)])

\* The notifications of a poller call are the changes of the answered status.
C18_NotesAreChanges ==
    pc \in {"poll", "check"} =>
        /\ notes = Changes(Answered(calls))
        /\ \A i \in 1..(Len(notes) - 1) : notes[i] # notes[i + 1]

\* A query notifies exactly when it is the first or its status differs from the
\* status of the query before it.
C18_QueryNotifies ==
    (pc = "poll" /\ pc' = "check") =>
        LET before == Answered(calls)
            changed == before = <<>> \/ before[Len(before)] # rq'.status
        IN  /\ changed => notes' = Append(notes, rq'.status)
            /\ ~changed => notes' = notes

\* What the poller does with an answer depends on the answer, the clock and
\* the timeout alone.
C18_OutcomeOf(answer, el, timeout) ==
    IF Lower(answer.status) = s_finished
    THEN IF answer.result_url \in {None, s_empty} THEN <<"except", "RuntimeError", None>>
         ELSE <<"resolve", "none", answer.result_url>>
    ELSE IF Lower(answer.status) = s_failed THEN <<"except", "RuntimeError", None>>
    ELSE IF el > timeout THEN <<"except", "TimeoutError", None>>
    ELSE <<"poll", "none", None>>

C18_NotesDoNotDecide ==
    pc = "check" =>
        <<pc', exc'.type, result_url'>> = C18_OutcomeOf(rq, elapsed, timeout_seconds)

(***************************************************************************)
(* C18: during polling a progress notification is emitted exactly when the *)
(* status a query returns differs from the status the previous query       *)
(* returned (always for the first query) and never for two consecutive     *)
(* identical statuses; the value returned or the error raised by the       *)
(* poller is decided by the answer, the clock and the timeout, not by the  *)
(* notifications.                                                          *)
(***************************************************************************)
C18_NotifyOnChange ==
    [](C18_NotesAreChanges) /\ [][C18_QueryNotifies /\ C18_NotesDoNotDecide]_vars

\* Three queries answered queued, queued, started: two notifications.
C18_Witness ==
    /\ pc = "check"
    /\ Answered(calls) = <<s_queued, s_queued, s_started>>
    /\ notes = <<s_queued, s_started>>

Terminal(status) == Lower(status) \in {s_finished, s_failed}

LastCall == calls[Len(calls)]

\* Whatever the timeout, the poller has queried before it returns or raises.
C19_QueriedFirst ==
    /\ pc \in {"check", "resolve", "download", "write"} => CountOp(calls, "retrieve") >= 1
    /\ (pc = "except" /\ exc.type \in {"RuntimeError", "TimeoutError"}) =>
           CountOp(calls, "retrieve") >= 1

\* A timeout error directly follows a query answered with a non-terminal status.
C19_TimeoutAfterNonTerminal ==
    (pc = "except" /\ exc.type = "TimeoutError") =>
        /\ LastCall.op = "retrieve"
        /\ LastCall.answer # NoRq
        /\ ~Terminal(LastCall.answer.status)
        /\ exc.status = LastCall.answer.status

\* The poller starts with a query, also when the timeout is 0.
C19_PollStartsWithQuery ==
    pc = "poll" => CountOp(calls', "retrieve") = CountOp(calls, "retrieve") + 1

\* A terminal answer gives the job's outcome, late or not.
C19_TerminalWins ==
    (pc = "check" /\ Terminal(rq.status)) =>
        /\ exc'.type # "TimeoutError"
        /\ (Lower(rq.status) = s_finished /\ rq.result_url \notin {None, s_empty}) =>
               (pc' = "resolve" /\ result_url' = rq.result_url)
        /\ Lower(rq.status) = s_failed =>
               (pc' = "except" /\ exc'.type = "RuntimeError" /\ exc'.message = rq.message)

\* The timeout is raised only when the time is over.
C19_TimeoutOnlyWhenLate ==
    (pc = "check" /\ exc'.type = "TimeoutError") =>
        (elapsed > timeout_seconds /\ ~Terminal(rq.status))

(***************************************************************************)
(* C19: in wait_for_request_finished a terminal status takes precedence    *)
(* over the timeout: at least one status query is always issued, even with *)
(* timeout 0; a timeout error is raised only directly after a query that   *)
(* returned a non-terminal status; a query that returns finished or failed *)
(* yields the job's outcome even when the elapsed time already exceeds the *)
(* timeout.                                                                *)
(***************************************************************************)
C19_TerminalBeforeTimeout ==
    /\ [](C19_QueriedFirst /\ C19_TimeoutAfterNonTerminal)
    /\ [][C19_PollStartsWithQuery /\ C19_TerminalWins /\ C19_TimeoutOnlyWhenLate]_vars

\* Timeout 0: the second query comes after a sleep, so after the timeout; it
\* is answered finished and the location is returned.
C19_Witness ==
    /\ pc = "resolve"
    /\ timeout_seconds = 0
    /\ CountOp(calls, "retrieve") = 2
    /\ Lower(LastCall.answer.status) = s_finished
    /\ result_url = LastCall.answer.result_url

\* In an iteration that ends in an except clause, for an identifier not saved
\* earlier in the run, the final path holds what it held before the run.
C20_BeforeIsKept ==
    (pc = "except" /\ CountFor(stdout, "saved", task_id) = 0) => fs[out_file] = fs0[out_file]

\* No step of an iteration but the rename after the last chunk changes the
\* final path, and an iteration that reaches an except clause has no rename.
C20_StepsKeepFinal ==
    /\ (InIteration /\ ~(pc = "write" /\ chunks = <<>>)) => fs'[out_file] = fs[out_file]
    /\ pc' = "except" => (pc # "except" /\ fs' = fs)
    /\ pc = "except" => (pc' = "loop" /\ fs' = fs)

\* A download answered with a non-success status leaves the final path alone.
C20_NonSuccessKeepsFinal ==
    (pc = "write" /\ resp.status \notin SuccessStatuses) => fs'[out_file] = fs[out_file]

(***************************************************************************)
(* C20: for every identifier that is not skipped, if a stage fails (the    *)
(* trigger, the polling, or the download with a non-success status or a    *)
(* transport error in the middle of the body), the content at the final    *)
(* path is the same after the iteration as before it: absent if it was     *)
(* absent, the unchanged earlier file if overwrite is set and a file was   *)
(* there.                                                                  *)
(***************************************************************************)
C20_FailureKeepsFinal ==
    [](C20_BeforeIsKept) /\ [][C20_StepsKeepFinal /\ C20_NonSuccessKeepsFinal]_vars

\* What holds of the code: the final path is kept whenever a stage raises.
C20_RaisedKeepsFinal ==
    [](C20_BeforeIsKept) /\ [][C20_StepsKeepFinal]_vars

\* With overwrite set, the download of an identifier broke in the middle of the
\* body and the earlier file is still at the final path.
C20_RaisedReached ==
    /\ pc = "loop"
    /\ overwrite
    /\ idx = 2
    /\ Len(stderr) = 1
    /\ fs0[OutFile(task_ids[1])] = OldContent
    /\ fs[OutFile(task_ids[1])] = OldContent
    /\ fs[TmpPath(OutFile(task_ids[1]))] = File(<<Payload(task_ids[1])[1]>>)

====
